---- MODULE Spec2Model ----
(***************************************************************************)
(* Worktree init-script runner (apps/server/src/services/                  *)
(* init-script-service.ts) for one (project, branch) pair.                 *)
(*                                                                         *)
(* Every `await` of runInitScript and of its exit/error callbacks is a     *)
(* suspension point, so each invocation is a small process whose steps     *)
(* interleave with the steps of the other invocations, of the child        *)
(* processes and of the other writers of the metadata store.               *)
(*                                                                         *)
(* Its collaborators are modelled beside it: the init-script routes that   *)
(* read, write and delete worktree-init.sh, the settings panel that saves  *)
(* the script with a debounce, and the login view's session check.         *)
(***************************************************************************)
EXTENDS Integers, Sequences, FiniteSets, TLC

\* ------------------------------------------------------------------ bounds
NumInvocations == 2     \* runInitScript calls for the (project, branch) pair
MaxChunks      == 2     \* output chunks the children write in all
MaxPrUpdates   == 1     \* pr updates made by the other writers of the store
MaxFsChanges   == 1     \* shell installs/removals while the server runs
MaxRequests    == 3     \* requests served by the init-script routes
MaxEffects     == 3     \* runs of the login view's mount effect
MaxChanges     == 3     \* edits made in the settings panel's script editor

Invocations == 1..NumInvocations

\* --------------------------------------------------------------- JS values
Undefined == "undefined"          \* an absent optional string field
NullCode  == -1                   \* `code === null`: the child died on a signal
None      == <<>>                 \* readWorktreeMetadata found no record
Some(r)   == <<r>>

ExitCodes   == {0, 7, 127, NullCode}
SpawnErrors == {"spawn /bin/bash ENOENT", "spawn EACCES"}
Streams     == {"stdout", "stderr"}
Platforms   == {"posix", "win32"}

Digits == <<"0", "1", "2", "3", "4", "5", "6", "7", "8", "9">>

RECURSIVE NumToStr(_)
\* decimal rendering of a non-negative integer inside a template literal
NumToStr(n) ==
  IF n < 10 THEN Digits[n + 1]
  ELSE NumToStr(n \div 10) \o Digits[(n % 10) + 1]

\* `${code}` for number | null
CodeToStr(c) == IF c = NullCode THEN "null" ELSE NumToStr(c)

\* ------------------------------------------------------------------ paths
Sep(plat) == IF plat = "win32" THEN "\\" ELSE "/"

RECURSIVE pathJoin(_, _)
pathJoin(plat, parts) ==
  IF Len(parts) = 1 THEN parts[1]
  ELSE parts[1] \o Sep(plat) \o pathJoin(plat, Tail(parts))

ProjectPath(plat)  == IF plat = "win32" THEN "C:\\proj" ELSE "/proj"
WorktreePath(plat) == IF plat = "win32" THEN "C:\\wt\\feature-x" ELSE "/wt/feature-x"
Branch == "feature-x"

GIT_BASH_PATHS ==
  << "C:\\Program Files\\Git\\bin\\bash.exe",
     "C:\\Program Files (x86)\\Git\\bin\\bash.exe",
     "C:\\Users\\u\\AppData\\Local\\Programs\\Git\\bin\\bash.exe",
     "C:\\Users\\u\\scoop\\apps\\git\\current\\bin\\bash.exe" >>

PosixShells == <<"/bin/bash", "/bin/sh">>

ShellCandidates(plat) ==
  IF plat = "win32" THEN {GIT_BASH_PATHS[k] : k \in 1..Len(GIT_BASH_PATHS)}
  ELSE {PosixShells[k] : k \in 1..Len(PosixShells)}

DefaultShell(plat) == IF plat = "win32" THEN GIT_BASH_PATHS[1] ELSE PosixShells[1]

getInitScriptPath(plat, projectPath) ==
  pathJoin(plat, <<projectPath, ".automaker", "worktree-init.sh">>)

\* -------------------------------------------------------------- variables
VARIABLES
  platform,          \* process.platform
  fs,                \* the paths that exist on disk
  meta,              \* the metadata store's record for (project, branch)
  pc,                \* position of each runInitScript invocation
  shellCmd,          \* its local `shellCmd`
  existingMetadata,  \* its local `existingMetadata`
  child,             \* state of the child process it spawned
  code,              \* the exit code the child ended with
  errorMessage,      \* the message of the error the child ended with
  hpc,               \* position of the child's exit/error callback
  metadata,          \* the callback's local `metadata`
  outCount,          \* chunks delivered so far, per stream
  log,               \* what each invocation did, in order
  prUpdates,         \* pr updates made so far by other writers
  fsChanges,         \* shell installs/removals made so far
  scriptContent,     \* the text of worktree-init.sh, when the file exists
  http,              \* the requests served by the init-script routes
  login,             \* the login view's session check
  panel              \* the worktrees settings panel

vars == << platform, fs, meta, pc, shellCmd, existingMetadata, child,
           code, errorMessage, hpc, metadata, outCount, log, prUpdates,
           fsChanges, scriptContent, http, login, panel >>

\* ---------------------------------------------------------- shell resolver
RECURSIVE firstExisting(_, _)
\* the `for (const bashPath of GIT_BASH_PATHS)` loop
firstExisting(paths, disk) ==
  IF paths = <<>> THEN None
  ELSE IF Head(paths) \in disk THEN Some(Head(paths))
  ELSE firstExisting(Tail(paths), disk)

RECURSIVE lastExisting(_, _)
lastExisting(paths, disk) ==
  IF paths = <<>> THEN None
  ELSE LET later == lastExisting(Tail(paths), disk) IN
       IF later # None THEN later
       ELSE IF Head(paths) \in disk THEN Some(Head(paths)) ELSE None

\* a search that keeps the last candidate found
findGitBash_LastMatch(plat, disk) ==
  IF plat # "win32" THEN None ELSE lastExisting(GIT_BASH_PATHS, disk)

findGitBash(plat, disk) ==
  IF plat # "win32" THEN None ELSE firstExisting(GIT_BASH_PATHS, disk)

\* a resolver that prefers /bin/sh
getShellCommand_ShFirst(plat, disk) ==
  IF plat = "win32"
  THEN LET gitBash == findGitBash(plat, disk) IN
       IF gitBash = None THEN None
       ELSE Some([shell |-> gitBash[1], args |-> <<>>])
  ELSE IF "/bin/sh" \in disk THEN Some([shell |-> "/bin/sh", args |-> <<>>])
  ELSE IF "/bin/bash" \in disk THEN Some([shell |-> "/bin/bash", args |-> <<>>])
  ELSE None

getShellCommand(plat, disk) ==
  IF plat = "win32"
  THEN LET gitBash == findGitBash(plat, disk) IN
       IF gitBash = None THEN None
       ELSE Some([shell |-> gitBash[1], args |-> <<>>])
  ELSE IF "/bin/bash" \in disk THEN Some([shell |-> "/bin/bash", args |-> <<>>])
  ELSE IF "/bin/sh" \in disk THEN Some([shell |-> "/bin/sh", args |-> <<>>])
  ELSE None

NoShellError(plat) ==
  IF plat = "win32"
  THEN "Git Bash not found. Please install Git for Windows to run init scripts."
  ELSE "No shell found (/bin/bash or /bin/sh)"

\* --------------------------------------------------------- metadata records
\* A record written by a writer that does not know the init fields carries
\* initScriptRan = FALSE here: the only read of the field is `=== true`.
Record(createdAt, pr, ran, status, error) ==
  [ branch |-> Branch, createdAt |-> createdAt, pr |-> pr,
    initScriptRan |-> ran, initScriptStatus |-> status, initScriptError |-> error ]

\* a gate that only a successful run closes
hasInitScriptRun_OnlySuccess(m) ==
  m # None /\ m[1].initScriptStatus = "success"

hasInitScriptRun(m) == m # None /\ m[1].initScriptRan = TRUE

\* Timestamps are ISO strings.  Every `new Date().toISOString()` of the modelled
\* window reads Now; the records found in the store at start-up are older.
Earlier == "2025-01-01T00:00:00.000Z"
Now     == "2026-01-01T00:00:00.000Z"

\* `m?.createdAt || new Date().toISOString()`
CreatedAtOr(m) == IF m # None THEN m[1].createdAt ELSE Now

\* `m?.pr`
PrOf(m) == IF m # None THEN m[1].pr ELSE Undefined

\* a pre-flight failure that is not marked as attempted
PreflightRecord_NotRan(error) == Record(Now, Undefined, FALSE, "failed", error)

PreflightRecord(error) == Record(Now, Undefined, TRUE, "failed", error)

\* a run marked as attempted when it starts
RunningRecord_MarksRan(m) ==
  Record(CreatedAtOr(m), PrOf(m), TRUE, "running", Undefined)

RunningRecord(m) == Record(CreatedAtOr(m), PrOf(m), FALSE, "running", Undefined)

\* `!code` in place of `code === 0`: a child killed by a signal counts as success
ExitStatus_Falsy(c) == IF c = 0 \/ c = NullCode THEN "success" ELSE "failed"

ExitStatus(c) == IF c = 0 THEN "success" ELSE "failed"

ExitCodeMessage(c) == "Exit code: " \o CodeToStr(c)

\* the exit-code message recorded whatever the code is
ExitRecord_AlwaysMessage(m, c) ==
  Record(CreatedAtOr(m), PrOf(m), TRUE, ExitStatus(c), ExitCodeMessage(c))

ExitRecord(m, c) ==
  Record(CreatedAtOr(m), PrOf(m), TRUE, ExitStatus(c),
         IF c = 0 THEN Undefined ELSE ExitCodeMessage(c))

\* the spawn error recorded with the wording of the exit path
ErrorRecord_ExitWording(m, message) ==
  Record(CreatedAtOr(m), PrOf(m), TRUE, "failed", "Exit code: " \o message)

ErrorRecord(m, message) ==
  Record(CreatedAtOr(m), PrOf(m), TRUE, "failed", message)

\* ------------------------------------------------------------------ events
StartedEvent ==
  [ kind |-> "worktree:init-started", projectPath |-> ProjectPath(platform),
    worktreePath |-> WorktreePath(platform), branch |-> Branch ]

OutputEvent(stream, content) ==
  [ kind |-> "worktree:init-output", projectPath |-> ProjectPath(platform),
    branch |-> Branch, type |-> stream, content |-> content ]

PreflightCompleted(error) ==
  [ kind |-> "worktree:init-completed", projectPath |-> ProjectPath(platform),
    worktreePath |-> WorktreePath(platform), branch |-> Branch,
    success |-> FALSE, error |-> error ]

ExitCompleted(c) ==
  [ kind |-> "worktree:init-completed", projectPath |-> ProjectPath(platform),
    worktreePath |-> WorktreePath(platform), branch |-> Branch,
    success |-> (c = 0), exitCode |-> c ]

ErrorCompleted(message) ==
  [ kind |-> "worktree:init-completed", projectPath |-> ProjectPath(platform),
    worktreePath |-> WorktreePath(platform), branch |-> Branch,
    success |-> FALSE, error |-> message ]

\* entries of the log that are not events
\* what the idempotency read found
GateEntry(m) == [kind |-> "gate", ran |-> (m # None /\ m[1].initScriptRan)]

WriteEntry(rec) == [kind |-> "write", rec |-> rec]

\* process.env of the server: it may already hold the variables the runner
\* sets, as it does when the server was started from an init script
ProcessEnv ==
  [ PATH |-> "/usr/bin", FORCE_COLOR |-> "0", AUTOMAKER_BRANCH |-> "main" ]

\* { ...base, ...over }
Spread(base, over) ==
  [ k \in DOMAIN base \cup DOMAIN over |->
      IF k \in DOMAIN over THEN over[k] ELSE base[k] ]

\* the variables of lines 172-181
ScriptEnv ==
  [ AUTOMAKER_PROJECT_PATH |-> ProjectPath(platform),
    AUTOMAKER_WORKTREE_PATH |-> WorktreePath(platform),
    AUTOMAKER_BRANCH |-> Branch,
    FORCE_COLOR |-> "1", npm_config_color |-> "always",
    CLICOLOR_FORCE |-> "1", GIT_TERMINAL_PROMPT |-> "0" ]

\* a spawn in the project directory, with the inherited variables winning
SpawnEntry_ProjectCwd(cmd) ==
  [ kind |-> "spawn", shell |-> cmd.shell,
    args |-> cmd.args \o <<getInitScriptPath(platform, ProjectPath(platform))>>,
    cwd |-> ProjectPath(platform), stdin |-> "ignore",
    env |-> Spread(ScriptEnv, ProcessEnv) ]

SpawnEntry(cmd) ==
  [ kind |-> "spawn", shell |-> cmd.shell,
    args |-> cmd.args \o <<getInitScriptPath(platform, ProjectPath(platform))>>,
    cwd |-> WorktreePath(platform), stdin |-> "ignore",
    env |-> Spread(ProcessEnv, ScriptEnv) ]

EndEntry(how, value) == [kind |-> how, value |-> value]

Logged(i, entries) == log' = [log EXCEPT ![i] = log[i] \o entries]

\* -------------------------------------------------------------------- Init
\* LoginView before its mount effect has run (lines 27-34)
LoginMounted ==
  [ pc |-> "mounted", sessionCheckRef |-> FALSE, effects |-> 0,
    setupComplete |-> FALSE, attempt |-> 0, calls |-> 0, replies |-> <<>>,
    waits |-> <<>>, isCheckingSession |-> TRUE, isAuthenticated |-> FALSE,
    navigated |-> "" ]

\* WorktreesSection after its first render (part_000, lines 24-32)
PanelMounted ==
  [ mounted |-> TRUE, scriptContent |-> "", isSaving |-> FALSE,
    showSaved |-> FALSE, saveTimeoutRef |-> 0, savedTimeoutRef |-> 0,
    timers |-> {}, created |-> 0, changes |-> 0, inFlight |-> 0,
    events |-> <<>> ]

\* no request served, nothing typed, the login view just mounted
ClientsIdle ==
  /\ scriptContent = ""
  /\ http = <<>>
  /\ login = LoginMounted
  /\ panel = PanelMounted

InitialRecords ==
  { None,
    Some(Record(Earlier, "123", FALSE, Undefined, Undefined)),
    Some(Record(Earlier, "123", TRUE, "success", Undefined)) }

Init ==
  /\ platform \in Platforms
  /\ \E shells \in SUBSET ShellCandidates(platform), script \in BOOLEAN :
       /\ shells \in {{}, {DefaultShell(platform)}}
       /\ fs = shells \cup
              (IF script THEN {getInitScriptPath(platform, ProjectPath(platform))}
               ELSE {})
  /\ meta \in InitialRecords
  /\ pc = [i \in Invocations |-> "idle"]
  /\ shellCmd = [i \in Invocations |-> None]
  /\ existingMetadata = [i \in Invocations |-> None]
  /\ child = [i \in Invocations |-> "none"]
  /\ code = [i \in Invocations |-> NullCode]
  /\ errorMessage = [i \in Invocations |-> Undefined]
  /\ hpc = [i \in Invocations |-> "idle"]
  /\ metadata = [i \in Invocations |-> None]
  /\ outCount = [i \in Invocations |-> [s \in Streams |-> 0]]
  /\ log = [i \in Invocations |-> <<>>]
  /\ prUpdates = 0
  /\ fsChanges = 0
  /\ ClientsIdle

\* ------------------------------------------------------------ metadata store
\* read(project, branch) -> Metadata | absent
readWorktreeMetadata == meta

\* write(project, branch, Metadata) -> ok | IOError
WriteOutcomes == {"ok", "IOError"}

\* a full-record overwrite by invocation i, or no change when the write fails
writeWorktreeMetadata(i, rec, outcome) ==
  IF outcome = "ok"
  THEN /\ meta' = Some(rec)
       /\ Logged(i, <<WriteEntry(rec)>>)
  ELSE UNCHANGED << meta, log >>

\* ------------------------------------------------------------ runInitScript
callVars  == << pc, shellCmd, existingMetadata >>
childVars == << child, code, errorMessage, hpc, metadata, outCount >>
clientVars == << scriptContent, http, login, panel >>
envVars   == << platform, fs, prUpdates, fsChanges, clientVars >>

ScriptExists == getInitScriptPath(platform, ProjectPath(platform)) \in fs

\* a call that does not look for the script file
Invoke_IgnoresScript(i) ==
  /\ pc[i] = "idle"
  /\ \A j \in Invocations : j < i => pc[j] # "idle"
  /\ pc' = [pc EXCEPT ![i] = "gate"]
  /\ UNCHANGED << meta, log, shellCmd, existingMetadata, childVars, envVars >>

\* the call, up to the first await (lines 103-114)
Invoke(i) ==
  /\ pc[i] = "idle"
  /\ \A j \in Invocations : j < i => pc[j] # "idle"
  /\ pc' = [pc EXCEPT ![i] = IF ScriptExists THEN "gate" ELSE "returned"]
  /\ UNCHANGED << meta, log, shellCmd, existingMetadata, childVars, envVars >>

\* every earlier call returned or rejected, no child is running and no
\* callback is pending
Finished(i) ==
  /\ pc[i] \in {"returned", "rejected"}
  /\ child[i] # "running"
  /\ hpc[i] \in {"idle", "done", "rejected"}

InvokeLater(i) ==
  /\ \A j \in Invocations : j < i => Finished(j)
  /\ Invoke(i)

\* hasInitScriptRun resolves; on an open gate the shell is resolved
\* (lines 114-126)
GateRead(i) ==
  /\ pc[i] = "gate"
  /\ LET m == readWorktreeMetadata IN
       /\ Logged(i, <<GateEntry(m)>>)
       /\ IF hasInitScriptRun(m)
          THEN /\ pc' = [pc EXCEPT ![i] = "returned"]
               /\ UNCHANGED shellCmd
          ELSE LET cmd == getShellCommand(platform, fs) IN
               /\ shellCmd' = [shellCmd EXCEPT ![i] = cmd]
               /\ pc' = [pc EXCEPT ![i] = IF cmd = None THEN "preflightWrite"
                                          ELSE "existingRead"]
  /\ UNCHANGED << meta, existingMetadata, childVars, envVars >>

\* the pre-flight failure record is written (lines 129-135); nothing catches
\* a failing write, so the promise of runInitScript rejects
PreflightWrite(i) ==
  /\ pc[i] = "preflightWrite"
  /\ \E outcome \in WriteOutcomes :
       /\ writeWorktreeMetadata(i, PreflightRecord(NoShellError(platform)), outcome)
       /\ pc' = [pc EXCEPT ![i] = IF outcome = "ok" THEN "preflightEmit"
                                  ELSE "rejected"]
  /\ UNCHANGED << shellCmd, existingMetadata, childVars, envVars >>

\* lines 137-144
PreflightEmit(i) ==
  /\ pc[i] = "preflightEmit"
  /\ Logged(i, <<PreflightCompleted(NoShellError(platform))>>)
  /\ pc' = [pc EXCEPT ![i] = "returned"]
  /\ UNCHANGED << meta, shellCmd, existingMetadata, childVars, envVars >>

\* line 150
ExistingRead(i) ==
  /\ pc[i] = "existingRead"
  /\ existingMetadata' = [existingMetadata EXCEPT ![i] = readWorktreeMetadata]
  /\ pc' = [pc EXCEPT ![i] = "runningWrite"]
  /\ UNCHANGED << meta, log, shellCmd, childVars, envVars >>

\* the 'running' record is written (lines 151-157)
RunningWrite(i) ==
  /\ pc[i] = "runningWrite"
  /\ \E outcome \in WriteOutcomes :
       /\ writeWorktreeMetadata(i, RunningRecord(existingMetadata[i]), outcome)
       /\ pc' = [pc EXCEPT ![i] = IF outcome = "ok" THEN "spawn" ELSE "rejected"]
  /\ existingMetadata' = [existingMetadata EXCEPT ![i] = None]
  /\ UNCHANGED << shellCmd, childVars, envVars >>

\* the process spawned before the started event is emitted
Spawn_BeforeStarted(i) ==
  /\ pc[i] = "spawn"
  /\ Logged(i, <<SpawnEntry(shellCmd[i][1]), StartedEvent>>)
  /\ child' = [child EXCEPT ![i] = "running"]
  /\ pc' = [pc EXCEPT ![i] = "returned"]
  /\ UNCHANGED << meta, shellCmd, existingMetadata, code, errorMessage, hpc, metadata,
                  outCount, envVars >>

\* a call that spawns and then stays suspended until the child has ended
Spawn_AwaitsChild(i) ==
  /\ pc[i] = "spawn"
  /\ Logged(i, <<StartedEvent, SpawnEntry(shellCmd[i][1])>>)
  /\ child' = [child EXCEPT ![i] = "running"]
  /\ pc' = [pc EXCEPT ![i] = "awaitChild"]
  /\ UNCHANGED << meta, shellCmd, existingMetadata, code, errorMessage, hpc, metadata,
                  outCount, envVars >>

\* emit started, spawn, register the callbacks, return (lines 160-258)
Spawn(i) ==
  /\ pc[i] = "spawn"
  /\ Logged(i, <<StartedEvent, SpawnEntry(shellCmd[i][1])>>)
  /\ child' = [child EXCEPT ![i] = "running"]
  /\ pc' = [pc EXCEPT ![i] = "returned"]
  /\ UNCHANGED << meta, shellCmd, existingMetadata, code, errorMessage, hpc, metadata,
                  outCount, envVars >>

\* ------------------------------------------------------------ child process
RECURSIVE SumChunks(_)
SumChunks(n) ==
  IF n = 0 THEN 0
  ELSE outCount[n]["stdout"] + outCount[n]["stderr"] + SumChunks(n - 1)

\* chunks delivered so far by all children
Chunks == SumChunks(NumInvocations)

\* both handlers tag their chunks 'stdout'
Data_TagsStdout(i, s) ==
  /\ child[i] \in {"running", "exited"}
  /\ Chunks < MaxChunks
  /\ outCount' = [outCount EXCEPT ![i][s] = outCount[i][s] + 1]
  /\ Logged(i, <<OutputEvent("stdout", outCount[i][s] + 1)>>)
  /\ UNCHANGED << meta, callVars, child, code, errorMessage, hpc, metadata,
                  envVars >>

\* a chunk arrives on a stream (lines 186-205); the pipes may still deliver
\* after 'exit'
Data(i, s) ==
  /\ child[i] \in {"running", "exited"}
  /\ Chunks < MaxChunks
  /\ outCount' = [outCount EXCEPT ![i][s] = outCount[i][s] + 1]
  /\ Logged(i, <<OutputEvent(s, outCount[i][s] + 1)>>)
  /\ UNCHANGED << meta, callVars, child, code, errorMessage, hpc, metadata,
                  envVars >>

\* a child whose 'exit' has no listener
Exit_NoListener(i, c) ==
  /\ child[i] = "running"
  /\ child' = [child EXCEPT ![i] = "exited"]
  /\ code' = [code EXCEPT ![i] = c]
  /\ Logged(i, <<EndEntry("exit", c)>>)
  /\ UNCHANGED << meta, callVars, errorMessage, hpc, metadata, outCount, envVars >>

\* 'exit' fires; the callback runs up to its first await (lines 208-215)
Exit(i, c) ==
  /\ child[i] = "running"
  /\ child' = [child EXCEPT ![i] = "exited"]
  /\ code' = [code EXCEPT ![i] = c]
  /\ hpc' = [hpc EXCEPT ![i] = "exitRead"]
  /\ Logged(i, <<EndEntry("exit", c)>>)
  /\ UNCHANGED << meta, callVars, errorMessage, metadata, outCount, envVars >>

\* a callback that publishes the completion before it updates the record
ExitRead_EmitsFirst(i) ==
  /\ hpc[i] = "exitRead"
  /\ metadata' = [metadata EXCEPT ![i] = readWorktreeMetadata]
  /\ Logged(i, <<ExitCompleted(code[i])>>)
  /\ hpc' = [hpc EXCEPT ![i] = "exitWrite"]
  /\ UNCHANGED << meta, callVars, child, code, errorMessage, outCount,
                  envVars >>

\* line 215
ExitRead(i) ==
  /\ hpc[i] = "exitRead"
  /\ metadata' = [metadata EXCEPT ![i] = readWorktreeMetadata]
  /\ hpc' = [hpc EXCEPT ![i] = "exitWrite"]
  /\ UNCHANGED << meta, log, callVars, child, code, errorMessage, outCount,
                  envVars >>

\* the terminal record is written (lines 216-223); a failing write is an
\* unhandled rejection of the async callback
ExitWrite(i) ==
  /\ hpc[i] = "exitWrite"
  /\ \E outcome \in WriteOutcomes :
       /\ writeWorktreeMetadata(i, ExitRecord(metadata[i], code[i]), outcome)
       /\ hpc' = [hpc EXCEPT ![i] = IF outcome = "ok" THEN "exitEmit"
                                    ELSE "rejected"]
  /\ metadata' = [metadata EXCEPT ![i] = None]
  /\ UNCHANGED << callVars, child, code, errorMessage, outCount, envVars >>

\* lines 226-232
ExitEmit(i) ==
  /\ hpc[i] = "exitEmit"
  /\ Logged(i, <<ExitCompleted(code[i])>>)
  /\ hpc' = [hpc EXCEPT ![i] = "done"]
  /\ UNCHANGED << meta, callVars, child, code, errorMessage, metadata,
                  outCount, envVars >>

\* 'error' fires in place of 'exit': the process could not be spawned
\* (lines 235-239)
Error(i, msg) ==
  /\ child[i] = "running"
  /\ outCount[i] = [s \in Streams |-> 0]
  /\ child' = [child EXCEPT ![i] = "errored"]
  /\ errorMessage' = [errorMessage EXCEPT ![i] = msg]
  /\ hpc' = [hpc EXCEPT ![i] = "errorRead"]
  /\ Logged(i, <<EndEntry("error", msg)>>)
  /\ UNCHANGED << meta, callVars, code, metadata, outCount, envVars >>

\* line 239
ErrorRead(i) ==
  /\ hpc[i] = "errorRead"
  /\ metadata' = [metadata EXCEPT ![i] = readWorktreeMetadata]
  /\ hpc' = [hpc EXCEPT ![i] = "errorWrite"]
  /\ UNCHANGED << meta, log, callVars, child, code, errorMessage, outCount,
                  envVars >>

\* lines 240-247
ErrorWrite(i) ==
  /\ hpc[i] = "errorWrite"
  /\ \E outcome \in WriteOutcomes :
       /\ writeWorktreeMetadata(i, ErrorRecord(metadata[i], errorMessage[i]), outcome)
       /\ hpc' = [hpc EXCEPT ![i] = IF outcome = "ok" THEN "errorEmit"
                                    ELSE "rejected"]
  /\ metadata' = [metadata EXCEPT ![i] = None]
  /\ UNCHANGED << callVars, child, code, errorMessage, outCount, envVars >>

\* lines 250-256
ErrorEmit(i) ==
  /\ hpc[i] = "errorEmit"
  /\ Logged(i, <<ErrorCompleted(errorMessage[i])>>)
  /\ hpc' = [hpc EXCEPT ![i] = "done"]
  /\ UNCHANGED << meta, callVars, child, code, errorMessage, metadata,
                  outCount, envVars >>

\* -------------------------------------------------------------- environment
\* another writer of the store records a pull request on the branch's record
UpdatePr(v) ==
  /\ prUpdates < MaxPrUpdates
  /\ prUpdates' = prUpdates + 1
  /\ meta' = IF meta = None
             THEN Some(Record(Now, v, FALSE, Undefined, Undefined))
             ELSE Some([meta[1] EXCEPT !.pr = v])
  /\ UNCHANGED << log, callVars, childVars, platform, fs, fsChanges, clientVars >>

\* a shell is installed or removed
ShellChange(p) ==
  /\ fsChanges < MaxFsChanges
  /\ fsChanges' = fsChanges + 1
  /\ fs' = IF p \in fs THEN fs \ {p} ELSE fs \cup {p}
  /\ UNCHANGED << meta, log, callVars, childVars, platform, prUpdates,
                  clientVars >>

\* the steps of the runner and of the children it spawned
Runner ==
  \/ \E i \in Invocations : GateRead(i)
  \/ \E i \in Invocations : PreflightWrite(i)
  \/ \E i \in Invocations : PreflightEmit(i)
  \/ \E i \in Invocations : ExistingRead(i)
  \/ \E i \in Invocations : RunningWrite(i)
  \/ \E i \in Invocations : Spawn(i)
  \/ \E i \in Invocations, c \in ExitCodes : Exit(i, c)
  \/ \E i \in Invocations : ExitRead(i)
  \/ \E i \in Invocations : ExitWrite(i)
  \/ \E i \in Invocations : ExitEmit(i)
  \/ \E i \in Invocations, msg \in SpawnErrors : Error(i, msg)
  \/ \E i \in Invocations : ErrorRead(i)
  \/ \E i \in Invocations : ErrorWrite(i)
  \/ \E i \in Invocations : ErrorEmit(i)

\* Callers that do not wait for one another: the invocations for the branch
\* overlap in every way the awaits allow.
Next ==
  \/ \E i \in Invocations : Invoke(i)
  \/ Runner

Spec == Init /\ [][Next]_vars

\* A workflow that calls the runner again only when the earlier call has
\* returned and its child's callback has finished.
Sequential ==
  \/ \E i \in Invocations : InvokeLater(i)
  \/ Runner

\* ... while shells are installed and removed
ShellNext ==
  \/ Sequential
  \/ \E p \in ShellCandidates(platform) : ShellChange(p)

ShellSpec == Init /\ [][ShellNext]_vars

\* ... while the children write to their output streams
StreamNext ==
  \/ Sequential
  \/ \E i \in Invocations, s \in Streams : Data(i, s)

StreamSpec == Init /\ [][StreamNext]_vars

\* ... while other writers of the store update pr
PrNext ==
  \/ Sequential
  \/ \E v \in {"456"} : UpdatePr(v)

PrSpec == Init /\ [][PrNext]_vars

\* The steps of invocation i and of its child.
Step(i) ==
  \/ GateRead(i) \/ PreflightWrite(i) \/ PreflightEmit(i)
  \/ ExistingRead(i) \/ RunningWrite(i) \/ Spawn(i)
  \/ \E c \in ExitCodes : Exit(i, c)
  \/ ExitRead(i) \/ ExitWrite(i) \/ ExitEmit(i)
  \/ \E msg \in SpawnErrors : Error(i, msg)
  \/ ErrorRead(i) \/ ErrorWrite(i) \/ ErrorEmit(i)

\* every operation of the metadata store returns successfully
StoreSucceeds ==
  \A i \in Invocations : pc'[i] # "rejected" /\ hpc'[i] # "rejected"

\* a call made while at most one earlier call is still in flight
InvokeOverlapping(i) ==
  /\ Cardinality({j \in Invocations : j < i /\ ~Finished(j)}) <= 1
  /\ Invoke(i)

LiveNext ==
  /\ \/ \E i \in Invocations : InvokeOverlapping(i)
     \/ Runner
  /\ StoreSucceeds

\* Callers that overlap in pairs and a store that does not fail.  The event
\* loop runs every continuation that is ready, and every child ends: it exits
\* or it reports an error.
LiveSpec ==
  /\ Init
  /\ [][LiveNext]_vars
  /\ \A i \in Invocations : WF_vars(Step(i) /\ StoreSucceeds)

\* Every set of shells that can be on disk, on either platform, with callers
\* that do not overlap.
AllShells == ShellCandidates("posix") \cup ShellCandidates("win32")

ResolverInit ==
  /\ platform \in Platforms
  /\ \E shells \in SUBSET AllShells, script \in BOOLEAN :
       fs = shells \cup
              (IF script THEN {getInitScriptPath(platform, ProjectPath(platform))}
               ELSE {})
  /\ meta \in InitialRecords
  /\ pc = [i \in Invocations |-> "idle"]
  /\ shellCmd = [i \in Invocations |-> None]
  /\ existingMetadata = [i \in Invocations |-> None]
  /\ child = [i \in Invocations |-> "none"]
  /\ code = [i \in Invocations |-> NullCode]
  /\ errorMessage = [i \in Invocations |-> Undefined]
  /\ hpc = [i \in Invocations |-> "idle"]
  /\ metadata = [i \in Invocations |-> None]
  /\ outCount = [i \in Invocations |-> [s \in Streams |-> 0]]
  /\ log = [i \in Invocations |-> <<>>]
  /\ prUpdates = 0
  /\ fsChanges = 0
  /\ ClientsIdle

ResolverSpec == ResolverInit /\ [][Sequential]_vars

\* ------------------------------------------------ init-script routes (part_002)
\* JSON values of a request body, with their `typeof`
Absent   == [t |-> "undefined", v |-> ""]
Str(x)   == [t |-> "string", v |-> x]
Num(x)   == [t |-> "number", v |-> x]

\* `!x` for a string or an absent value
Falsy(x) == x.t = "undefined" \/ (x.t = "string" /\ x.v = "")

Contents == {"", "npm ci"}

\* bodies of the requests: projectPath present, empty or missing; content a
\* string, a number or missing
Bodies ==
  [ projectPath : {Str(ProjectPath(platform))},
    content : {Str(c) : c \in Contents} \cup {Num("42"), Absent} ]
    \cup [ projectPath : {Str(""), Absent}, content : {Str("npm ci")} ]

\* secureFs.mkdir/writeFile/rm resolve or reject
FsOutcomes == {"ok", "throws"}

\* res.status(n).json(j), with the file as the handler left it
Respond(method, body, status, json) ==
  http' = Append(http, [ method |-> method, body |-> body, status |-> status,
                         json |-> json ])

BadRequest(message) == [success |-> FALSE, error |-> message]

routeVars == << meta, log, callVars, childVars, platform, prUpdates, fsChanges,
                login, panel >>

\* GET /init-script (lines 30-70)
GetInitScript(body) ==
  /\ Len(http) < MaxRequests
  /\ IF Falsy(body.projectPath)
     THEN Respond("GET", body, 400, BadRequest("projectPath is required"))
     ELSE LET scriptPath == getInitScriptPath(platform, body.projectPath.v) IN
          IF scriptPath \in fs
          THEN Respond("GET", body, 200,
                       [ success |-> TRUE, exists |-> TRUE,
                         content |-> scriptContent, path |-> scriptPath ])
          ELSE Respond("GET", body, 200,
                       [ success |-> TRUE, exists |-> FALSE,
                         content |-> "", path |-> scriptPath ])
  /\ UNCHANGED << fs, scriptContent, routeVars >>

\* PUT /init-script (lines 75-122)
PutInitScript(body, outcome) ==
  /\ Len(http) < MaxRequests
  /\ IF Falsy(body.projectPath)
     THEN /\ outcome = "ok"
          /\ Respond("PUT", body, 400, BadRequest("projectPath is required"))
          /\ UNCHANGED << fs, scriptContent >>
     ELSE IF body.content.t # "string"
     THEN /\ outcome = "ok"
          /\ Respond("PUT", body, 400, BadRequest("content must be a string"))
          /\ UNCHANGED << fs, scriptContent >>
     ELSE LET scriptPath == getInitScriptPath(platform, body.projectPath.v) IN
          IF outcome = "ok"
          THEN /\ fs' = fs \cup {scriptPath}
               /\ scriptContent' = body.content.v
               /\ Respond("PUT", body, 200, [success |-> TRUE, path |-> scriptPath])
          ELSE /\ Respond("PUT", body, 500,
                          [success |-> FALSE, error |-> "EACCES"])
               /\ UNCHANGED << fs, scriptContent >>
  /\ UNCHANGED routeVars

\* DELETE /init-script (lines 127-162); rm is called with force, so it
\* rejects only when the file could not be removed, and the handler answers
\* success all the same
DeleteInitScript(body, outcome) ==
  /\ Len(http) < MaxRequests
  /\ IF Falsy(body.projectPath)
     THEN /\ outcome = "ok"
          /\ Respond("DELETE", body, 400, BadRequest("projectPath is required"))
          /\ UNCHANGED << fs, scriptContent >>
     ELSE LET scriptPath == getInitScriptPath(platform, body.projectPath.v) IN
          /\ outcome = "throws" => scriptPath \in fs
          /\ IF outcome = "ok"
             THEN /\ fs' = fs \ {scriptPath}
                  /\ scriptContent' = ""
             ELSE UNCHANGED << fs, scriptContent >>
          /\ Respond("DELETE", body, 200, [success |-> TRUE])
  /\ UNCHANGED routeVars

\* the runner is not in use
RunnerIdle ==
  /\ meta = None
  /\ pc = [i \in Invocations |-> "idle"]
  /\ shellCmd = [i \in Invocations |-> None]
  /\ existingMetadata = [i \in Invocations |-> None]
  /\ child = [i \in Invocations |-> "none"]
  /\ code = [i \in Invocations |-> NullCode]
  /\ errorMessage = [i \in Invocations |-> Undefined]
  /\ hpc = [i \in Invocations |-> "idle"]
  /\ metadata = [i \in Invocations |-> None]
  /\ outCount = [i \in Invocations |-> [s \in Streams |-> 0]]
  /\ log = [i \in Invocations |-> <<>>]
  /\ prUpdates = 0
  /\ fsChanges = 0

RoutesInit ==
  /\ platform \in Platforms
  /\ \E c \in Contents, script \in BOOLEAN :
       /\ fs = IF script THEN {getInitScriptPath(platform, ProjectPath(platform))}
               ELSE {}
       /\ scriptContent = IF script THEN c ELSE ""
  /\ http = <<>>
  /\ login = LoginMounted
  /\ panel = PanelMounted
  /\ RunnerIdle

\* requests served one after the other
RoutesNext ==
  \/ \E body \in Bodies : GetInitScript(body)
  \/ \E body \in Bodies, outcome \in FsOutcomes : PutInitScript(body, outcome)
  \/ \E body \in Bodies, outcome \in FsOutcomes : DeleteInitScript(body, outcome)

RoutesSpec == RoutesInit /\ [][RoutesNext]_vars

\* ------------------------------------------------- login view (login-view.tsx)
maxRetries == 5
baseDelay  == 500

\* what a call of verifySession comes to
Replies == {"valid", "invalid", "throws"}

loginFrame == << platform, fs, meta, log, callVars, childVars, prUpdates,
                 fsChanges, scriptContent, http, panel >>

\* the mount effect runs, again when React re-runs it (lines 37-70); the
\* first run starts checkExistingSession, which calls verifySession
RunEffect ==
  /\ login.navigated = ""
  /\ login.effects < MaxEffects
  /\ login' = IF login.sessionCheckRef
              THEN [login EXCEPT !.effects = @ + 1]
              ELSE [login EXCEPT !.effects = @ + 1, !.sessionCheckRef = TRUE,
                                 !.pc = "verify", !.attempt = 0, !.calls = @ + 1]
  /\ UNCHANGED loginFrame

\* the loop is left: by `break`, or because attempt reached maxRetries
CheckComplete(l) == [l EXCEPT !.pc = "done", !.isCheckingSession = FALSE]

\* attempt++ and the loop test; a further iteration calls verifySession
NextAttempt(l) ==
  IF l.attempt + 1 < maxRetries
  THEN [l EXCEPT !.attempt = @ + 1, !.pc = "verify", !.calls = @ + 1]
  ELSE CheckComplete([l EXCEPT !.attempt = @ + 1])

\* a check that also retries when the session is invalid
VerifySession_RetriesInvalid(reply) ==
  /\ login.pc = "verify"
  /\ LET l == [login EXCEPT !.replies = Append(@, reply)] IN
       login' =
         IF reply = "valid"
         THEN [l EXCEPT !.pc = "done", !.isAuthenticated = TRUE,
                        !.navigated = IF l.setupComplete THEN "/" ELSE "/setup"]
         ELSE IF l.attempt < maxRetries - 1
         THEN [l EXCEPT !.pc = "wait",
                        !.waits = Append(@, baseDelay * 2 ^ l.attempt)]
         ELSE NextAttempt(l)
  /\ UNCHANGED loginFrame

\* verifySession settles (lines 47-63)
VerifySession(reply) ==
  /\ login.pc = "verify"
  /\ LET l == [login EXCEPT !.replies = Append(@, reply)] IN
       login' =
         IF reply = "valid"
         THEN [l EXCEPT !.pc = "done", !.isAuthenticated = TRUE,
                        !.navigated = IF l.setupComplete THEN "/" ELSE "/setup"]
         ELSE IF reply = "invalid"
         THEN CheckComplete(l)
         ELSE IF l.attempt < maxRetries - 1
         THEN [l EXCEPT !.pc = "wait",
                        !.waits = Append(@, baseDelay * 2 ^ l.attempt)]
         ELSE NextAttempt(l)
  /\ UNCHANGED loginFrame

\* the timer of delay(waitTime) fires (line 61)
DelayElapsed ==
  /\ login.pc = "wait"
  /\ login' = NextAttempt(login)
  /\ UNCHANGED loginFrame

LoginInit ==
  /\ platform \in Platforms
  /\ fs = {}
  /\ scriptContent = ""
  /\ http = <<>>
  /\ \E b \in BOOLEAN : login = [LoginMounted EXCEPT !.setupComplete = b]
  /\ panel = PanelMounted
  /\ RunnerIdle

LoginNext ==
  \/ RunEffect
  \/ \E reply \in Replies : VerifySession(reply)
  \/ DelayElapsed

\* React runs the effect of a mounted component, verifySession settles and
\* timers fire
LoginSpec ==
  /\ LoginInit
  /\ [][LoginNext]_vars
  /\ WF_vars(RunEffect)
  /\ WF_vars(\E reply \in Replies : VerifySession(reply))
  /\ WF_vars(DelayElapsed)

\* ------------------------------------------ worktrees settings panel (part_000)
\* A pending timer is [id, kind, value]: kind "save" runs saveScript(value),
\* kind "saved" hides the saved mark.  A ref holds a timer id, 0 for null.
panelFrame == << platform, fs, meta, log, callVars, childVars, prUpdates,
                 fsChanges, scriptContent, http, login >>

\* clearTimeout(ref.current) for each of the refs given
ClearTimeouts(ts, refs) == {t \in ts : t.id \notin refs}

\* a change handler that schedules a save without cancelling the pending one
handleContentChange_NoClear(value) ==
  /\ panel.mounted
  /\ panel.changes < MaxChanges
  /\ panel' = [panel EXCEPT
       !.scriptContent = value,
       !.showSaved = FALSE,
       !.changes = @ + 1,
       !.created = @ + 1,
       !.saveTimeoutRef = panel.created + 1,
       !.timers = @ \cup {[id |-> panel.created + 1, kind |-> "save", value |-> value]},
       !.events = Append(@, [kind |-> "change", value |-> value])]
  /\ UNCHANGED panelFrame

\* the editor's onChange (lines 96-115)
handleContentChange(value) ==
  /\ panel.mounted
  /\ panel.changes < MaxChanges
  /\ panel' = [panel EXCEPT
       !.scriptContent = value,
       !.showSaved = FALSE,
       !.changes = @ + 1,
       !.created = @ + 1,
       !.saveTimeoutRef = panel.created + 1,
       !.timers = ClearTimeouts(@, {panel.saveTimeoutRef, panel.savedTimeoutRef})
                    \cup {[id |-> panel.created + 1, kind |-> "save", value |-> value]},
       !.events = Append(@, [kind |-> "change", value |-> value])]
  /\ UNCHANGED panelFrame

\* the save timer fires: saveScript(value) runs up to its await and the PUT
\* request is on its way (lines 64-75, 111-113)
SaveTimerFires(t) ==
  /\ t \in panel.timers
  /\ t.kind = "save"
  /\ panel' = [panel EXCEPT
       !.timers = @ \ {t},
       !.isSaving = TRUE,
       !.inFlight = @ + 1,
       !.events = Append(@, [kind |-> "save", value |-> t.value])]
  /\ UNCHANGED panelFrame

\* the PUT request settles (lines 76-90)
SaveSettles(success) ==
  /\ panel.inFlight > 0
  /\ panel' = IF success
              THEN [panel EXCEPT
                      !.inFlight = @ - 1, !.isSaving = FALSE, !.showSaved = TRUE,
                      !.created = @ + 1,
                      !.savedTimeoutRef = panel.created + 1,
                      !.timers = @ \cup {[id |-> panel.created + 1,
                                          kind |-> "saved", value |-> ""]}]
              ELSE [panel EXCEPT !.inFlight = @ - 1, !.isSaving = FALSE]
  /\ UNCHANGED panelFrame

\* the timer that hides the saved mark fires (line 78)
SavedTimerFires(t) ==
  /\ t \in panel.timers
  /\ t.kind = "saved"
  /\ panel' = [panel EXCEPT !.timers = @ \ {t}, !.showSaved = FALSE]
  /\ UNCHANGED panelFrame

\* the cleanup of the mount effect (lines 118-123)
Unmount ==
  /\ panel.mounted
  /\ panel' = [panel EXCEPT
       !.mounted = FALSE,
       !.timers = ClearTimeouts(@, {panel.saveTimeoutRef, panel.savedTimeoutRef})]
  /\ UNCHANGED panelFrame

PanelInit ==
  /\ platform \in Platforms
  /\ fs = {}
  /\ scriptContent = ""
  /\ http = <<>>
  /\ login = LoginMounted
  /\ \E c \in Contents : panel = [PanelMounted EXCEPT !.scriptContent = c]
  /\ RunnerIdle

PanelNext ==
  \/ \E value \in Contents : handleContentChange(value)
  \/ \E t \in panel.timers : SaveTimerFires(t)
  \/ \E success \in BOOLEAN : SaveSettles(success)
  \/ \E t \in panel.timers : SavedTimerFires(t)
  \/ Unmount

PanelSpec == PanelInit /\ [][PanelNext]_vars

TypeOK ==
  /\ platform \in Platforms
  /\ \A i \in Invocations :
       /\ pc[i] \in {"idle", "gate", "preflightWrite", "preflightEmit",
                     "existingRead", "runningWrite", "spawn", "returned",
                     "rejected"}
       /\ child[i] \in {"none", "running", "exited", "errored"}
       /\ hpc[i] \in {"idle", "exitRead", "exitWrite", "exitEmit", "errorRead",
                      "errorWrite", "errorEmit", "done", "rejected"}

\* ------------------------------------------------------- reading the log
Pos(i, kinds) == {k \in 1..Len(log[i]) : log[i][k].kind \in kinds}

Spawns(i)         == Pos(i, {"spawn"})
Ended(i)          == Pos(i, {"exit", "error"})
Started(i)        == Pos(i, {"worktree:init-started"})
Outputs(i)        == Pos(i, {"worktree:init-output"})
Completions(i)    == Pos(i, {"worktree:init-completed"})
Writes(i)         == Pos(i, {"write"})
TerminalWrites(i) == {k \in Writes(i) : log[i][k].rec.initScriptRan}
RunningWrites(i)  ==
  {k \in Writes(i) : /\ ~log[i][k].rec.initScriptRan
                     /\ log[i][k].rec.initScriptStatus = "running"}

\* invocation i appended a metadata write to its log in this step
RunnerWrote(i) ==
  /\ Len(log'[i]) = Len(log[i]) + 1
  /\ log'[i][Len(log'[i])].kind = "write"

\* ------------------------------------------------------------------ C1
\* C1: whatever the interleaving of the runInitScript invocations for the
\* (project, branch) pair, the init script process is spawned at most once.
C1_SpawnedAtMostOnce ==
  Cardinality({i \in Invocations : Spawns(i) # {}}) <= 1

\* ------------------------------------------------------------------ C2
\* C2: an invocation whose idempotency read finds initScriptRan === true
\* spawns nothing, publishes nothing and writes nothing: it has returned and
\* its log holds the read alone.
C2_TerminalRecordNoOp ==
  \A i \in Invocations :
    (log[i] # <<>> /\ log[i][1].kind = "gate" /\ log[i][1].ran)
      => /\ log[i] = <<[kind |-> "gate", ran |-> TRUE]>>
         /\ pc[i] = "returned"
         /\ child[i] = "none"
         /\ hpc[i] = "idle"

\* an invocation found the terminal record that an earlier, completed run of
\* the script left, and returned
C2_Witness ==
  \E i, j \in Invocations :
    /\ i # j
    /\ hpc[j] = "done"
    /\ TerminalWrites(j) # {}
    /\ pc[i] = "returned"
    /\ log[i] = <<[kind |-> "gate", ran |-> TRUE]>>

\* ------------------------------------------------------------------ C3
\* C3: every metadata write of the runner yields a record whose pr and
\* createdAt equal those of the record that was in the store right before it.
C3_WritesPreservePrAndCreatedAt ==
  [][\A i \in Invocations :
       (RunnerWrote(i) /\ meta # None)
         => /\ meta'[1].pr = meta[1].pr
            /\ meta'[1].createdAt = meta[1].createdAt]_vars

\* ------------------------------------------------------------------ C4
\* C4: the promise of runInitScript never rejects and no error escapes from
\* the exit/error callbacks, whatever the collaborators do.
C4_NeverRejects ==
  \A i \in Invocations : pc[i] # "rejected" /\ hpc[i] # "rejected"

\* ------------------------------------------------------------------ C5
\* C5: an invocation that spawned a process makes at most one terminal write
\* and publishes at most one init-completed event, each of them after the
\* process has ended and never before, never one from 'exit' and one from
\* 'error'; when its callback has finished there is exactly one of each.
C5_OneTerminalWriteAndEventAfterEnd ==
  \A i \in Invocations :
    Spawns(i) # {}
      => /\ Cardinality(TerminalWrites(i)) <= 1
         /\ Cardinality(Completions(i)) <= 1
         /\ Cardinality(Ended(i)) <= 1
         /\ \A k \in TerminalWrites(i) \cup Completions(i) :
              \E e \in Ended(i) : e < k
         /\ hpc[i] = "done"
              => /\ Cardinality(TerminalWrites(i)) = 1
                 /\ Cardinality(Completions(i)) = 1

\* two overlapping invocations spawned, and the callback of each has finished
C5_Witness ==
  \E i, j \in Invocations :
    /\ i # j
    /\ Spawns(i) # {} /\ hpc[i] = "done" /\ child[i] = "exited"
    /\ Spawns(j) # {} /\ hpc[j] = "done" /\ child[j] = "errored"

\* ------------------------------------------------------------------ C6
\* C6: when the script file does not exist, runInitScript writes no metadata,
\* publishes no event and spawns no process, whatever the record and the
\* shells on disk are.
C6_NoScriptNoOp ==
  /\ [](~ScriptExists =>
          \A i \in Invocations :
            /\ log[i] = <<>>
            /\ pc[i] \in {"idle", "returned"}
            /\ child[i] = "none"
            /\ hpc[i] = "idle")
  /\ [][~ScriptExists => UNCHANGED << meta, log, child >>]_vars

\* every call returned, with a record in the store and a shell on disk, and
\* there was no script
C6_Witness ==
  /\ ~ScriptExists
  /\ \A i \in Invocations : pc[i] = "returned"
  /\ meta # None
  /\ getShellCommand(platform, fs) # None

\* ------------------------------------------------------------------ C7
C7_ExpectedError(c) ==
  CASE c = 0 -> Undefined
    [] c = 7 -> "Exit code: 7"
    [] c = 127 -> "Exit code: 127"
    [] c = NullCode -> "Exit code: null"

\* C7: after the child exits with code c, the record the callback writes has
\* initScriptRan true, status 'success' and no error when c is 0, status
\* 'failed' and the error "Exit code: c" otherwise, and the completion event
\* has success = (c is 0) and exitCode c; a finished callback has done both.
C7_ExitCodeMapping ==
  \A i \in Invocations :
    \A e \in Pos(i, {"exit"}) :
      LET c == log[i][e].value IN
        /\ \A k \in Writes(i) :
             k > e =>
               /\ log[i][k].rec.initScriptRan = TRUE
               /\ log[i][k].rec.initScriptStatus =
                    (IF c = 0 THEN "success" ELSE "failed")
               /\ log[i][k].rec.initScriptError = C7_ExpectedError(c)
        /\ \A k \in Completions(i) :
             /\ k > e
             /\ log[i][k].success = (c = 0)
             /\ log[i][k].exitCode = c
        /\ hpc[i] = "done"
             => /\ \E k \in Writes(i) : k > e
                /\ Completions(i) # {}

\* one child exited with 0 and another with 7, and both callbacks finished
C7_Witness ==
  \E i, j \in Invocations :
    /\ hpc[i] = "done" /\ child[i] = "exited" /\ code[i] = 0
    /\ hpc[j] = "done" /\ child[j] = "exited" /\ code[j] = 7

\* ------------------------------------------------------------------ C8
\* no candidate shell of the platform is on disk
NoShellOnDisk == ShellCandidates(platform) \cap fs = {}

C8_Diagnostic ==
  IF platform = "win32"
  THEN "Git Bash not found. Please install Git for Windows to run init scripts."
  ELSE "No shell found (/bin/bash or /bin/sh)"

\* invocation i found the gate open and resolved no shell
PreflightPath(i) ==
  /\ pc[i] \notin {"idle", "gate"}
  /\ log[i] # <<>>
  /\ log[i][1] = [kind |-> "gate", ran |-> FALSE]
  /\ shellCmd[i] = None

C8_FailedRecord(r) ==
  /\ r.initScriptRan = TRUE
  /\ r.initScriptStatus = "failed"
  /\ r.initScriptError = C8_Diagnostic

\* C8: an invocation that finds the script, an open gate and no shell on disk
\* spawns nothing and publishes no started or output event; it writes a
\* record with initScriptRan true, status 'failed' and the platform
\* diagnostic, then publishes one init-completed event with success false and
\* that message; and every call made after it returned does nothing, also
\* when a shell has been installed since.
C8_PreflightFailureIsFinal ==
  /\ [](\A i \in Invocations :
          PreflightPath(i)
            => /\ child[i] = "none" /\ hpc[i] = "idle"
               /\ Spawns(i) = {} /\ Started(i) = {} /\ Outputs(i) = {}
               /\ pc[i] \in {"preflightWrite", "preflightEmit", "returned",
                             "rejected"}
               /\ pc[i] \in {"preflightWrite", "rejected"} => Len(log[i]) = 1
               /\ pc[i] \in {"preflightEmit", "returned"}
                    => /\ Len(log[i]) >= 2
                       /\ log[i][2].kind = "write"
                       /\ C8_FailedRecord(log[i][2].rec)
               /\ pc[i] = "preflightEmit" => Len(log[i]) = 2
               /\ pc[i] = "returned"
                    => /\ Len(log[i]) = 3
                       /\ log[i][3].kind = "worktree:init-completed"
                       /\ log[i][3].success = FALSE
                       /\ log[i][3].error = C8_Diagnostic
               /\ \A j \in Invocations :
                    (i < j /\ pc[i] = "returned")
                      => /\ log[j] \in {<<>>, <<[kind |-> "gate", ran |-> TRUE]>>}
                         /\ child[j] = "none"
                         /\ pc[j] \in {"idle", "gate", "returned"})
  /\ [][\A i \in Invocations :
          /\ (pc[i] = "gate" /\ pc'[i] # "gate" /\ NoShellOnDisk
                /\ ~(meta # None /\ meta[1].initScriptRan))
               => pc'[i] = "preflightWrite"
          /\ (pc[i] = "preflightWrite" /\ pc'[i] = "preflightEmit")
               => /\ meta' # None
                  /\ C8_FailedRecord(meta'[1])]_vars

\* a call failed for want of a shell, a shell was installed, and the next call
\* returned without doing anything
C8_Witness ==
  \E i, j \in Invocations :
    /\ i < j
    /\ PreflightPath(i) /\ pc[i] = "returned"
    /\ ~NoShellOnDisk
    /\ pc[j] = "returned"
    /\ log[j] = <<[kind |-> "gate", ran |-> TRUE]>>

\* ------------------------------------------------------------------ C9
\* C9: in an invocation that spawns, the write of {initScriptRan: false,
\* initScriptStatus: 'running'} and then the init-started event precede the
\* spawn, and every init-output and init-completed event follows the spawn.
C9_RunningAndStartedBeforeSpawn ==
  \A i \in Invocations :
    /\ Outputs(i) # {} => Spawns(i) # {}
    /\ \A sp \in Spawns(i) :
         /\ \E w \in RunningWrites(i), st \in Started(i) : w < st /\ st < sp
         /\ \A k \in Outputs(i) \cup Completions(i) : sp < k
         /\ \A k \in TerminalWrites(i) : sp < k

\* a child wrote output on both streams and its run was completed
C9_Witness ==
  \E i \in Invocations :
    /\ outCount[i]["stdout"] > 0
    /\ outCount[i]["stderr"] > 0
    /\ Completions(i) # {}

\* ------------------------------------------------------------------ C10
\* C10: after the child reports a spawn error with message msg, the callback
\* reads the store again, writes a record with initScriptRan true, status
\* 'failed' and initScriptError msg, which is then the record in the store,
\* and publishes init-completed with success false and error msg.
C10_SpawnErrorRecorded ==
  /\ [](\A i \in Invocations :
          \A e \in Pos(i, {"error"}) :
            LET msg == log[i][e].value IN
              /\ \A k \in Writes(i) :
                   k > e =>
                     /\ log[i][k].rec.initScriptRan = TRUE
                     /\ log[i][k].rec.initScriptStatus = "failed"
                     /\ log[i][k].rec.initScriptError = msg
              /\ \A k \in Completions(i) :
                   /\ k > e
                   /\ log[i][k].success = FALSE
                   /\ log[i][k].error = msg
              /\ hpc[i] = "done"
                   => /\ \E k \in Writes(i) : k > e
                      /\ Completions(i) # {})
  /\ [][\A i \in Invocations :
          /\ (hpc[i] = "errorRead" /\ hpc'[i] = "errorWrite")
               => metadata'[i] = meta
          /\ (hpc[i] = "errorWrite" /\ hpc'[i] = "errorEmit")
               => /\ meta' # None
                  /\ meta'[1].initScriptError = errorMessage[i]
                  /\ meta'[1].pr = PrOf(metadata[i])]_vars

\* a child could not be spawned and its callback has finished
C10_Witness ==
  \E i \in Invocations :
    /\ child[i] = "errored"
    /\ hpc[i] = "done"
    /\ meta # None
    /\ meta[1].initScriptError = errorMessage[i]

\* ------------------------------------------------------------------ C11
\* the callback of invocation i makes its terminal write in this step
TerminalWriteStep(i) ==
  \/ hpc[i] = "exitWrite" /\ hpc'[i] = "exitEmit"
  \/ hpc[i] = "errorWrite" /\ hpc'[i] = "errorEmit"

\* C11: the terminal write of the exit/error callback never loses a pr that
\* another writer stored while the script was running: the record it writes
\* carries the pr the store holds at the moment of the write, wherever the
\* other writer's update falls relative to the callback's read and write.
C11_TerminalWriteKeepsPr ==
  [][\A i \in Invocations :
       (TerminalWriteStep(i) /\ meta # None) => meta'[1].pr = meta[1].pr]_vars

\* ------------------------------------------------------------------ C12
C12_WellFormed(r) ==
  /\ r.initScriptStatus \in {"running", "success", "failed"}
  /\ r.initScriptRan = (r.initScriptStatus \in {"success", "failed"})
  /\ r.initScriptError # Undefined => r.initScriptStatus = "failed"

\* C12: in every record the runner writes, initScriptRan is true exactly when
\* initScriptStatus is 'success' or 'failed' and false when it is 'running',
\* and initScriptError is present only when initScriptStatus is 'failed'.
C12_WrittenRecordsWellFormed ==
  \A i \in Invocations :
    \A k \in Writes(i) : C12_WellFormed(log[i][k].rec)

\* the runner has written a 'running', a 'success' and a 'failed' record
C12_Witness ==
  \A st \in {"running", "success", "failed"} :
    \E i \in Invocations :
      \E k \in Writes(i) : log[i][k].rec.initScriptStatus = st

\* ------------------------------------------------------------------ C13
\* invocation i is the only call made so far
OnlyCall(i) == \A j \in Invocations : j # i => pc[j] = "idle"

\* C13: runInitScript does not wait for the child.  An invocation that has
\* spawned has returned, with the child still running and no callback
\* started, so every terminal write and init-completed event of the spawn
\* path comes after the return; and when it is the only invocation, the
\* record in the store at the moment of the return has initScriptStatus
\* 'running' and initScriptRan false.
C13_ReturnsWithoutWaiting ==
  /\ [](\A i \in Invocations : Spawns(i) # {} => pc[i] = "returned")
  /\ [][\A i \in Invocations :
          (pc[i] = "spawn" /\ pc'[i] # "spawn")
            => /\ pc'[i] = "returned"
               /\ child'[i] = "running"
               /\ hpc'[i] = "idle"
               /\ \A k \in 1..Len(log'[i]) :
                    /\ log'[i][k].kind \notin {"exit", "error", "worktree:init-completed"}
                    /\ log'[i][k].kind = "write" => ~log'[i][k].rec.initScriptRan
               /\ OnlyCall(i)
                    => /\ meta' # None
                       /\ meta'[1].initScriptStatus = "running"
                       /\ meta'[1].initScriptRan = FALSE]_vars

\* the only call made has returned while its child is still running
C13_Witness ==
  \E i \in Invocations :
    /\ OnlyCall(i)
    /\ pc[i] = "returned"
    /\ child[i] = "running"
    /\ meta # None /\ meta[1].initScriptStatus = "running"

\* ------------------------------------------------------------------ C14
\* invocation i found the gate open, so it has resolved the shell
Resolved(i) ==
  /\ pc[i] \notin {"idle", "gate"}
  /\ log[i] # <<>>
  /\ log[i][1] = [kind |-> "gate", ran |-> FALSE]

\* C14: on a POSIX platform the resolver returns /bin/bash with no arguments
\* whenever /bin/bash exists, /bin/sh with no arguments when /bin/bash is
\* absent and /bin/sh exists, and absent when both are absent; that is the
\* shell runInitScript obtains, and with both absent it spawns nothing and
\* records a pre-flight failure.
C14_PosixResolver ==
  platform = "posix" =>
    LET r == getShellCommand(platform, fs) IN
      /\ "/bin/bash" \in fs => r = <<[shell |-> "/bin/bash", args |-> <<>>]>>
      /\ ("/bin/bash" \notin fs /\ "/bin/sh" \in fs)
           => r = <<[shell |-> "/bin/sh", args |-> <<>>]>>
      /\ ("/bin/bash" \notin fs /\ "/bin/sh" \notin fs) => r = <<>>
      /\ \A i \in Invocations :
           Resolved(i)
             => /\ shellCmd[i] = r
                /\ \A k \in Spawns(i) : log[i][k].shell = r[1].shell
                /\ r = <<>>
                     => /\ Spawns(i) = {} /\ child[i] = "none"
                        /\ pc[i] \in {"preflightWrite", "preflightEmit",
                                      "returned", "rejected"}
                        /\ pc[i] \in {"preflightEmit", "returned"}
                             => /\ meta # None
                                /\ meta[1].initScriptRan = TRUE
                                /\ meta[1].initScriptStatus = "failed"

\* on POSIX with only /bin/sh on disk, a child was spawned with /bin/sh
C14_Witness ==
  /\ platform = "posix"
  /\ "/bin/bash" \notin fs /\ "/bin/sh" \in fs
  /\ \E i \in Invocations :
       \E k \in Spawns(i) : log[i][k].shell = "/bin/sh" /\ log[i][k].args[1] = "/proj/.automaker/worktree-init.sh"

\* ------------------------------------------------------------------ C15
\* index of the first candidate of the Windows list that is on disk, 0 if none
C15_FirstOnDisk ==
  IF \E k \in 1..4 : GIT_BASH_PATHS[k] \in fs
  THEN CHOOSE k \in 1..4 :
         /\ GIT_BASH_PATHS[k] \in fs
         /\ \A j \in 1..(k - 1) : GIT_BASH_PATHS[j] \notin fs
  ELSE 0

\* C15: on Windows the resolver returns, with no arguments, the first path of
\* the ordered list (Program Files, Program Files (x86), per-user local apps,
\* scoop) that is on disk, and absent when none is; it never returns
\* /bin/bash, /bin/sh or the native command shell, also when they exist.
C15_WindowsResolver ==
  platform = "win32" =>
    LET r == getShellCommand(platform, fs) IN
      /\ Len(GIT_BASH_PATHS) = 4
      /\ C15_FirstOnDisk = 0 => r = <<>>
      /\ C15_FirstOnDisk # 0
           => r = <<[shell |-> GIT_BASH_PATHS[C15_FirstOnDisk], args |-> <<>>]>>
      /\ r # <<>> => r[1].shell \notin {"/bin/bash", "/bin/sh", "cmd.exe"}
      /\ \A i \in Invocations : Resolved(i) => shellCmd[i] = r

\* on Windows with /bin/bash, the (x86) Git Bash and the scoop Git Bash on
\* disk, a child was spawned with the (x86) Git Bash
C15_Witness ==
  /\ platform = "win32"
  /\ "/bin/bash" \in fs
  /\ fs \cap ShellCandidates("win32") = {GIT_BASH_PATHS[2], GIT_BASH_PATHS[4]}
  /\ \E i \in Invocations :
       \E k \in Spawns(i) : log[i][k].shell = GIT_BASH_PATHS[2]

\* ------------------------------------------------------------------ C16
\* positions of the init-output events of stream s in the log of invocation i
OutputsOf(i, s) == {k \in Outputs(i) : log[i][k].type = s}

\* C16: for each stream, one init-output event is published per chunk that
\* arrived, tagged with the stream the chunk arrived on, at the moment it
\* arrives, and the events of a stream are in the log in the order of
\* arrival: the n-th event of the stream carries the n-th chunk.
C16_OneEventPerChunkInOrder ==
  /\ [](\A i \in Invocations :
          /\ \A k \in Outputs(i) : log[i][k].type \in Streams
          /\ \A s \in Streams :
               /\ Cardinality(OutputsOf(i, s)) = outCount[i][s]
               /\ \A k \in OutputsOf(i, s) :
                    log[i][k].content = Cardinality({j \in OutputsOf(i, s) : j <= k}))
  /\ [][\A i \in Invocations : \A s \in Streams :
          outCount'[i][s] # outCount[i][s]
            => /\ outCount'[i][s] = outCount[i][s] + 1
               /\ Len(log'[i]) = Len(log[i]) + 1
               /\ log'[i][Len(log'[i])].kind = "worktree:init-output"
               /\ log'[i][Len(log'[i])].type = s
               /\ log'[i][Len(log'[i])].content = outCount'[i][s]]_vars

\* two chunks arrived on the stdout of one child, and two events were published
C16_Witness ==
  \E i \in Invocations :
    /\ outCount[i]["stdout"] = 2
    /\ Cardinality(OutputsOf(i, "stdout")) = 2

\* ------------------------------------------------------------------ C17
\* C17: when a run ends with a non-zero exit, every init-output event of the
\* invocation has been published before its init-completed event: none
\* follows it.
C17_NoOutputAfterCompleted ==
  \A i \in Invocations :
    (\E e \in Pos(i, {"exit"}) : log[i][e].value # 0)
      => \A k \in Outputs(i), c \in Completions(i) : k < c

\* ------------------------------------------------------------------ C18
\* C18: when every child ends and the store does not fail, an invocation that
\* wrote the 'running' record and published init-started eventually writes a
\* terminal record with initScriptRan true and publishes init-completed, and
\* a record with status 'running' does not stay in the store forever.
C18_RunEventuallyCompletes ==
  /\ \A i \in Invocations :
       (RunningWrites(i) # {} /\ Started(i) # {})
         ~> (TerminalWrites(i) # {} /\ Completions(i) # {} /\ hpc[i] = "done")
  /\ (meta # None /\ meta[1].initScriptStatus = "running")
       ~> (meta # None /\ meta[1].initScriptRan
             /\ meta[1].initScriptStatus \in {"success", "failed"})

\* a run was started and has completed, and the record is terminal
C18_Witness ==
  \E i \in Invocations :
    /\ RunningWrites(i) # {} /\ Started(i) # {}
    /\ TerminalWrites(i) # {} /\ Completions(i) # {}
    /\ meta # None /\ meta[1].initScriptRan
    /\ \A j \in Invocations : child[j] # "running" /\ hpc[j] \in {"idle", "done"}

\* ------------------------------------------------------------------ C19
\* C19: however the invocations for the (project, branch) pair interleave,
\* once the stored record has initScriptRan true no write of the runner sets
\* it back to false or replaces its terminal status by 'running'.
C19_RanIsMonotonic ==
  [][\A i \in Invocations :
       (RunnerWrote(i) /\ meta # None /\ meta[1].initScriptRan)
         => /\ meta'[1].initScriptRan
            /\ meta'[1].initScriptStatus # "running"]_vars

\* ------------------------------------------------------------------ C20
\* invocation i publishes init-completed in this step
PublishesCompleted(i) ==
  /\ Len(log'[i]) = Len(log[i]) + 1
  /\ log'[i][Len(log'[i])].kind = "worktree:init-completed"

\* C20: with a single invocation, at the moment init-completed is published
\* the stored record has initScriptRan true and its status is 'success'
\* exactly when the event's success flag is true, and the terminal write is
\* in the log before the event, on the pre-flight, exit and error paths.
C20_TerminalWriteBeforeCompleted ==
  /\ [](\A i \in Invocations :
          \A c \in Completions(i) :
            \E w \in TerminalWrites(i) :
              /\ w < c
              /\ (log[i][w].rec.initScriptStatus = "success") = log[i][c].success)
  /\ [][\A i \in Invocations :
          (OnlyCall(i) /\ PublishesCompleted(i))
            => /\ meta # None
               /\ meta[1].initScriptRan = TRUE
               /\ meta[1].initScriptStatus \in {"success", "failed"}
               /\ (meta[1].initScriptStatus = "success")
                    = log'[i][Len(log'[i])].success
               /\ meta' = meta]_vars

\* the only call made has published a completion, on each of the three paths
C20_Witness ==
  \E i \in Invocations :
    /\ OnlyCall(i)
    /\ Completions(i) # {}
    /\ \/ pc[i] = "returned" /\ shellCmd[i] = None /\ child[i] = "none"
       \/ child[i] = "exited" /\ code[i] = 0 /\ hpc[i] = "done"
       \/ child[i] = "errored" /\ hpc[i] = "done"

\* ------------------------------------------------------------------ C21
C21_ScriptPath ==
  IF platform = "win32" THEN "C:\\proj\\.automaker\\worktree-init.sh"
  ELSE "/proj/.automaker/worktree-init.sh"

C21_Worktree == IF platform = "win32" THEN "C:\\wt\\feature-x" ELSE "/wt/feature-x"

C21_Project == IF platform = "win32" THEN "C:\\proj" ELSE "/proj"

\* C21: every spawn runs the resolved shell with one argument, the path of
\* worktree-init.sh in the project's .automaker directory, in the worktree
\* directory and not in the project directory, with standard input not
\* connected, and with the project path, the worktree path and the branch of
\* the invocation in the environment, whatever the server's own environment
\* holds.
C21_SpawnArguments ==
  \A i \in Invocations :
    \A k \in Spawns(i) :
      LET sp == log[i][k] IN
        /\ <<[shell |-> sp.shell, args |-> <<>>]>> = getShellCommand(platform, fs)
        /\ sp.args = <<C21_ScriptPath>>
        /\ sp.cwd = C21_Worktree
        /\ sp.cwd # C21_Project
        /\ sp.stdin = "ignore"
        /\ sp.env.AUTOMAKER_PROJECT_PATH = C21_Project
        /\ sp.env.AUTOMAKER_WORKTREE_PATH = C21_Worktree
        /\ sp.env.AUTOMAKER_BRANCH = "feature-x"
        /\ sp.env.PATH = "/usr/bin"

\* on Windows, with only the scoop Git Bash on disk, a child was spawned
C21_Witness ==
  /\ platform = "win32"
  /\ fs \cap ShellCandidates("win32") = {GIT_BASH_PATHS[4]}
  /\ \E i \in Invocations :
       \E k \in Spawns(i) : log[i][k].cwd = "C:\\wt\\feature-x"

\* ------------------------------------------------------------------ C22
\* request k carried a usable projectPath
C22_Addressed(k) == ~Falsy(http[k].body.projectPath)

\* C22: over one project path, a successful PUT of content c followed by a
\* GET is answered exists true and content c; a DELETE followed by a GET is
\* answered exists false and content ''; a DELETE is answered success whether
\* or not the file existed; and a request without projectPath, or a PUT whose
\* content is not a string, is answered 400 and leaves the file as it was.
C22_RoutesContract ==
  /\ [](\A k \in 1..Len(http) :
          LET r == http[k] IN
            /\ (r.method = "DELETE" /\ C22_Addressed(k))
                 => r.status = 200 /\ r.json.success
            /\ (~C22_Addressed(k)
                  \/ (r.method = "PUT" /\ r.body.content.t # "string"))
                 => r.status = 400 /\ ~r.json.success
            /\ (k > 1 /\ r.method = "GET" /\ C22_Addressed(k)
                  /\ C22_Addressed(k - 1) /\ http[k - 1].status = 200)
                 => /\ http[k - 1].method = "PUT"
                         => /\ r.json.exists
                            /\ r.json.content = http[k - 1].body.content.v
                    /\ http[k - 1].method = "DELETE"
                         => /\ ~r.json.exists
                            /\ r.json.content = "")
  /\ [][(Len(http') > Len(http) /\ http'[Len(http')].status = 400)
          => UNCHANGED << fs, scriptContent >>]_vars

\* ------------------------------------------------------------------ C23
\* C23: the session check started on mount terminates.  It calls
\* verifySession at most 5 times, calls it again only after a call that
\* threw, navigates away exactly when a call returned valid, and otherwise
\* (a call returned invalid, or 5 calls threw) ends with isCheckingSession
\* false.
C23_SessionCheckTerminates ==
  /\ [](LET n == Len(login.replies) IN
          /\ login.calls <= 5
          /\ login.calls = n + (IF login.pc \in {"verify", "wait"} /\ n < login.calls
                                THEN 1 ELSE 0)
          /\ \A k \in 1..n : k < login.calls => login.replies[k] = "throws"
          /\ (login.navigated # "") = (n > 0 /\ login.replies[n] = "valid")
          /\ login.navigated # "" => login.pc = "done"
          /\ (login.pc = "done" /\ login.navigated = "")
               => /\ ~login.isCheckingSession
                  /\ login.replies[n] = "invalid"
                       \/ (n = 5 /\ \A k \in 1..5 : login.replies[k] = "throws")
          /\ login.pc # "done" => login.isCheckingSession)
  /\ <>(login.pc = "done")

\* verifySession threw twice and then found the session invalid: the login
\* form is shown
C23_Witness ==
  /\ login.replies = <<"throws", "throws", "invalid">>
  /\ login.pc = "done"
  /\ ~login.isCheckingSession

\* ------------------------------------------------------------------ C24
\* C24: when verifySession keeps throwing, the waits between the attempts
\* are 500, 1000, 2000, 4000 and 8000 ms.
C24_BackoffWaits ==
  (login.pc = "done" /\ login.replies = <<"throws", "throws", "throws", "throws", "throws">>)
    => login.waits = <<500, 1000, 2000, 4000, 8000>>

\* ------------------------------------------------------------------ C25
\* the save timers that are pending
C25_PendingSaves == {t \in panel.timers : t.kind = "save"}

\* C25: the save is debounced.  At most one save timer is pending at any
\* time and it carries the content of the last change, the earlier one
\* having been cancelled; every save request comes right after the last
\* change of its burst and carries its content, so a burst issues one
\* request; and once the timer of a burst has fired the request is issued.
C25_SaveIsDebounced ==
  LET ev == panel.events IN
    /\ Cardinality(C25_PendingSaves) <= 1
    /\ \A t \in C25_PendingSaves :
         /\ t.value = panel.scriptContent
         /\ t.id = panel.saveTimeoutRef
         /\ ev[Len(ev)] = [kind |-> "change", value |-> t.value]
    /\ \A k \in 1..Len(ev) :
         ev[k].kind = "save"
           => /\ k > 1
              /\ ev[k - 1] = [kind |-> "change", value |-> ev[k].value]
    /\ (panel.mounted /\ C25_PendingSaves = {} /\ ev # <<>>)
         => ev[Len(ev)].kind = "save"

\* a burst of three changes was followed by one save request, with the
\* content of the last change
C25_Witness ==
  panel.events = << [kind |-> "change", value |-> "npm ci"],
                    [kind |-> "change", value |-> ""],
                    [kind |-> "change", value |-> "npm ci"],
                    [kind |-> "save", value |-> "npm ci"] >>

====
